---- MODULE Spec2Model ----
(***************************************************************************)
(* servicebroker/broker/bind.go: RabbitMQServiceBroker.Bind and the        *)
(* credential Builder (Build and its helpers).                              *)
(*                                                                          *)
(* A Go string is a sequence of bytes.  It is modelled as a sequence of    *)
(* one-token elements: an ASCII character is the one-character string, the *)
(* byte 0xFF (never part of valid UTF-8) is the token InvalidByte and the  *)
(* rune U+FFFD is the token ReplacementRune.  fmt.Sprintf is the            *)
(* concatenation of its literal pieces and its arguments.                   *)
(***************************************************************************)
EXTENDS Integers, Sequences, FiniteSets, TLC

\* Longest hostnames sequence of a Builder the callers are given.
MaxHosts == 2

Callers == {"c1", "c2"}

InvalidByte == "0xFF"
ReplacementRune == "U+FFFD"

\* Go's nil (a nil interface{}, a nil error, an empty brokerapi.Binding's Credentials).
Nil == [nil |-> TRUE]

----------------------------------------------------------------------------
(* fmt's %d verb *)

DigitChar(d) == <<"0", "1", "2", "3", "4", "5", "6", "7", "8", "9">>[d + 1]

RECURSIVE FormatNat(_)
FormatNat(n) == IF n < 10 THEN <<DigitChar(n)>>
                ELSE FormatNat(n \div 10) \o <<DigitChar(n % 10)>>

FormatInt(n) == IF n < 0 THEN <<"-">> \o FormatNat(-n) ELSE FormatNat(n)

----------------------------------------------------------------------------
(* The Builder's helpers.  b is the receiver, a record with the fields of  *)
(* the Builder struct.                                                      *)

dashboardURL(b) ==
    <<"h", "t", "t", "p", ":", "/", "/">> \o b.MgmtDomain
        \o <<"/", "#", "/", "l", "o", "g", "i", "n", "/">> \o b.Username
        \o <<"/">> \o b.Password

\* Mutant: the port-less URI given amqp's usual port.
uriForBinding_withPort(b, hostname) ==
    <<"a", "m", "q", "p">> \o <<":", "/", "/">> \o b.Username \o <<":">>
        \o b.Password \o <<"@">> \o hostname \o <<":">> \o FormatInt(5672)
        \o <<"/">> \o b.VHost

uriForBinding(b, hostname) ==
    <<"a", "m", "q", "p">> \o <<":", "/", "/">> \o b.Username \o <<":">>
        \o b.Password \o <<"@">> \o hostname \o <<"/">> \o b.VHost

\* Mutant: every URI built from the primary hostname.
urisForBinding_primaryOnly(b) ==
    [i \in 1..Len(b.Hostnames) |-> uriForBinding(b, b.Hostnames[1])]

urisForBinding(b) ==
    [i \in 1..Len(b.Hostnames) |-> uriForBinding(b, b.Hostnames[i])]

httpapiuriForBinding(b) ==
    <<"h", "t", "t", "p", ":", "/", "/">> \o b.Username \o <<":">>
        \o b.Password \o <<"@">> \o b.MgmtDomain \o <<"/", "a", "p", "i", "/">>

httpapiurisForBinding(b) == <<httpapiuriForBinding(b)>>

uriForAMQP(b, hostname, port) ==
    <<"a", "m", "q", "p">> \o <<":", "/", "/">> \o b.Username \o <<":">>
        \o b.Password \o <<"@">> \o hostname \o <<":">> \o FormatInt(port)
        \o <<"/">> \o b.VHost

urisForAMQP(b, port) ==
    [i \in 1..Len(b.Hostnames) |-> uriForAMQP(b, b.Hostnames[i], port)]

uriForManagement(b, hostname, port) ==
    <<"h", "t", "t", "p", ":", "/", "/">> \o b.Username \o <<":">>
        \o b.Password \o <<"@">> \o hostname \o <<":">> \o FormatInt(port)
        \o <<"/", "a", "p", "i", "/">>

urisForManagement(b, port) ==
    [i \in 1..Len(b.Hostnames) |-> uriForManagement(b, b.Hostnames[i], port)]

\* Mutant: the amqp descriptor advertising the config's tls flag.
addAMQPProtocol_configTLS(b, port, tls) ==
    [Username  |-> b.Username,
     Password  |-> b.Password,
     VHost     |-> b.VHost,
     Hostname  |-> b.Hostnames[1],
     Hostnames |-> b.Hostnames,
     URI       |-> uriForAMQP(b, b.Hostnames[1], port),
     URIs      |-> urisForAMQP(b, port),
     Port      |-> port,
     TLS       |-> b.TLS,
     Path      |-> <<>>]

\* The protocol struct; VHost and Path left out of a literal are Go's zero
\* value, the empty string.
addAMQPProtocol(b, port, tls) ==
    [Username  |-> b.Username,
     Password  |-> b.Password,
     VHost     |-> b.VHost,
     Hostname  |-> b.Hostnames[1],
     Hostnames |-> b.Hostnames,
     URI       |-> uriForAMQP(b, b.Hostnames[1], port),
     URIs      |-> urisForAMQP(b, port),
     Port      |-> port,
     TLS       |-> tls,
     Path      |-> <<>>]

\* Mutant: the management descriptor advertising the config's tls flag.
addMgmtProtocol_configTLS(b) ==
    [Username  |-> b.Username,
     Password  |-> b.Password,
     VHost     |-> <<>>,
     Hostname  |-> b.Hostnames[1],
     Hostnames |-> b.Hostnames,
     URI       |-> uriForManagement(b, b.Hostnames[1], 15672),
     URIs      |-> urisForManagement(b, 15672),
     Port      |-> 15672,
     TLS       |-> b.TLS,
     Path      |-> <<"/", "a", "p", "i", "/">>]

addMgmtProtocol(b) ==
    [Username  |-> b.Username,
     Password  |-> b.Password,
     VHost     |-> <<>>,
     Hostname  |-> b.Hostnames[1],
     Hostnames |-> b.Hostnames,
     URI       |-> uriForManagement(b, b.Hostnames[1], 15672),
     URIs      |-> urisForManagement(b, 15672),
     Port      |-> 15672,
     TLS       |-> FALSE,
     Path      |-> <<"/", "a", "p", "i", "/">>]

\* Mutant: a descriptor for every name of protocolPorts, under that name.
protocolsCase_anyName(b, ps, protocol, port) ==
    [k \in DOMAIN ps \cup {protocol} |->
        IF k = protocol THEN addAMQPProtocol(b, port, FALSE) ELSE ps[k]]

\* Mutant: the switch lost, every name's port written to the amqp entry.
protocolsCase_lastWins(b, ps, protocol, port) ==
    [k \in DOMAIN ps \cup {"amqp"} |->
        IF k = "amqp" THEN addAMQPProtocol(b, port, FALSE) ELSE ps[k]]

\* One iteration of the range loop of protocols(): the switch on the key.
protocolsCase(b, ps, protocol, port) ==
    IF protocol = "amqp"
    THEN [k \in DOMAIN ps \cup {"amqp"} |->
            IF k = "amqp" THEN addAMQPProtocol(b, port, FALSE) ELSE ps[k]]
    ELSE ps

\* The statement after the loop: ps["management"] = b.addMgmtProtocol().
protocolsMgmt(b, ps) ==
    [k \in DOMAIN ps \cup {"management"} |->
        IF k = "management" THEN addMgmtProtocol(b) ELSE ps[k]]

\* The binding struct literal of Build, given the map protocols() returned.
bindingLiteral(b, ps) ==
    [VHost        |-> b.VHost,
     Username     |-> b.Username,
     Password     |-> b.Password,
     DashboardURL |-> dashboardURL(b),
     Hostname     |-> b.Hostnames[1],
     Hostnames    |-> b.Hostnames,
     HTTPAPIURI   |-> httpapiuriForBinding(b),
     HTTPAPIURIs  |-> httpapiurisForBinding(b),
     URI          |-> uriForBinding(b, b.Hostnames[1]),
     URIs         |-> urisForBinding(b),
     TLS          |-> b.TLS,
     Protocols    |-> ps]

----------------------------------------------------------------------------
(* encoding/json.  Marshal yields a JSON document, modelled as a tree of   *)
(* tagged nodes; Unmarshal into an interface{} yields Go's generic values: *)
(* an object becomes a map[string]interface{}, an array a []interface{},   *)
(* a number a float64, a string a string.                                   *)

\* A string value is encoded coerced to valid UTF-8: each invalid byte is
\* replaced by the Unicode replacement rune.
jsonString(s) ==
    [t |-> "string",
     v |-> [i \in 1..Len(s) |-> IF s[i] = InvalidByte THEN ReplacementRune ELSE s[i]]]

\* A []string.  (A nil slice would encode as null; Build reaches Marshal only
\* with a non-empty Hostnames, so every slice here has an element.)
jsonStrings(ss) ==
    [t |-> "array", v |-> [i \in 1..Len(ss) |-> jsonString(ss[i])]]

jsonNumber(n) == [t |-> "number", v |-> n]

jsonBool(x) == [t |-> "bool", v |-> x]

\* The protocol struct under its json tags; vhost and path are omitempty.
jsonMarshalProtocol(p) ==
    LET always == [username |-> jsonString(p.Username),
                   password |-> jsonString(p.Password),
                   host     |-> jsonString(p.Hostname),
                   hosts    |-> jsonStrings(p.Hostnames),
                   uri      |-> jsonString(p.URI),
                   uris     |-> jsonStrings(p.URIs),
                   port     |-> jsonNumber(p.Port),
                   ssl      |-> jsonBool(p.TLS)]
        vhost == IF Len(p.VHost) = 0 THEN <<>> ELSE [vhost |-> jsonString(p.VHost)]
        path  == IF Len(p.Path) = 0 THEN <<>> ELSE [path |-> jsonString(p.Path)]
    IN  [t |-> "object", v |-> always @@ vhost @@ path]

\* The binding struct under its json tags.
jsonMarshal(bind) ==
    [t |-> "object",
     v |-> [dashboard_url |-> jsonString(bind.DashboardURL),
            username      |-> jsonString(bind.Username),
            password      |-> jsonString(bind.Password),
            hostname      |-> jsonString(bind.Hostname),
            hostnames     |-> jsonStrings(bind.Hostnames),
            http_api_uri  |-> jsonString(bind.HTTPAPIURI),
            http_api_uris |-> jsonStrings(bind.HTTPAPIURIs),
            uri           |-> jsonString(bind.URI),
            uris          |-> jsonStrings(bind.URIs),
            vhost         |-> jsonString(bind.VHost),
            ssl           |-> jsonBool(bind.TLS),
            protocols     |->
                [t |-> "object",
                 v |-> [k \in DOMAIN bind.Protocols |->
                          jsonMarshalProtocol(bind.Protocols[k])]]]]

\* A JSON number decodes to a float64, which holds every integer of
\* magnitude up to 2^53 exactly; the integers of this model are within it.
Float64(n) == n

RECURSIVE jsonUnmarshal(_)
jsonUnmarshal(d) ==
    CASE d.t = "string" -> d.v
      [] d.t = "number" -> Float64(d.v)
      [] d.t = "bool"   -> d.v
      [] d.t = "array"  -> [i \in 1..Len(d.v) |-> jsonUnmarshal(d.v[i])]
      [] d.t = "object" -> [k \in DOMAIN d.v |-> jsonUnmarshal(d.v[k])]

----------------------------------------------------------------------------
(* State.  Each caller is one goroutine running Build directly on the      *)
(* shared Builder value config, or running Bind.                            *)

VARIABLES
    config,     \* the Builder value the direct callers invoke Build on
    broker,     \* broker.Config.RabbitMQ: Administrator.Username/Password, TLS
    pc,         \* each caller's position
    frame,      \* each caller's outermost call: "none", "Build" or "Bind"
    instanceID, \* Bind's instanceID argument
    service,    \* Bind's local service, the result of the lookup
    b,          \* Build's receiver, a copy of the Builder it is called on
    todo,       \* keys of b.ProtocolPorts the range loop has yet to visit
    visited,    \* the keys the range loop has visited, in its order
    ps,         \* the local ps of protocols()
    output,     \* Build's result output
    err,        \* Build's result err
    binding,    \* Bind's result, the Credentials of the brokerapi.Binding
    bindErr,    \* Bind's result error
    calls       \* how often each caller has run each step, and the step that failed

vars == <<config, broker, pc, frame, instanceID, service, b, todo, visited, ps,
          output, err, binding, bindErr, calls>>

buildVars == <<b, todo, visited, ps, output, err>>
bindVars == <<instanceID, service, binding, bindErr>>

\* Strings the Builder is given.
Hosts == {<<"h", "1">>, <<"h", InvalidByte>>, <<>>}
HostnameSeqs == UNION {[1..n -> Hosts] : n \in 0..MaxHosts}
VHosts == {<<"%", "2", "f">>, <<>>}
ProtocolNames == {"amqp", "clustering", "management"}
PortChoices == [amqp |-> {5672, 5671}, clustering |-> {25672}, management |-> {8080}]
Ports == UNION {PortChoices[k] : k \in ProtocolNames}
PortMaps ==
    UNION {{m \in [K -> Ports] : \A k \in K : m[k] \in PortChoices[k]} :
             K \in SUBSET ProtocolNames}

Builders ==
    [MgmtDomain    : {<<"m", ":", "1", "5", "6", "7", "2">>},
     Hostnames     : HostnameSeqs,
     VHost         : VHosts,
     Username      : {<<"u">>, <<"u", InvalidByte>>},
     Password      : {<<"p">>},
     TLS           : BOOLEAN,
     ProtocolPorts : PortMaps]

\* The zero value of a Builder.
ZeroBuilder ==
    [MgmtDomain |-> <<>>, Hostnames |-> <<>>, VHost |-> <<>>, Username |-> <<>>,
     Password |-> <<>>, TLS |-> FALSE, ProtocolPorts |-> <<>>]

BrokerConfigs == [Username : {<<"u">>}, Password : {<<"p">>}, TLS : BOOLEAN]

InitCallers ==
    /\ pc = [c \in Callers |-> "idle"]
    /\ frame = [c \in Callers |-> "none"]
    /\ instanceID = [c \in Callers |-> ""]
    /\ service = [c \in Callers |-> Nil]
    /\ b = [c \in Callers |-> ZeroBuilder]
    /\ todo = [c \in Callers |-> {}]
    /\ visited = [c \in Callers |-> <<>>]
    /\ ps = [c \in Callers |-> <<>>]
    /\ output = [c \in Callers |-> Nil]
    /\ err = [c \in Callers |-> Nil]
    /\ binding = [c \in Callers |-> Nil]
    /\ bindErr = [c \in Callers |-> Nil]
    /\ calls = [c \in Callers |-> [client |-> 0, lookup |-> 0, build |-> 0, failed |-> "none"]]

\* Callers of Build on one Builder value.
Init ==
    /\ config \in Builders
    /\ broker = [Username |-> <<>>, Password |-> <<>>, TLS |-> FALSE]
    /\ InitCallers

\* Callers of Bind on one broker.
InitBind ==
    /\ config = ZeroBuilder
    /\ broker \in BrokerConfigs
    /\ InitCallers

----------------------------------------------------------------------------
(* Build *)

\* Build is entered with receiver builder.  The struct literal's fields are
\* evaluated in order; b.Hostnames[0] panics (index out of range) on an empty
\* Hostnames, before b.protocols() is reached.  Otherwise protocols() starts:
\* ps := make(protocols), and the range over b.ProtocolPorts begins.
BuildEnter(c, builder) ==
    /\ b' = [b EXCEPT ![c] = builder]
    /\ calls' = [calls EXCEPT ![c].build = @ + 1]
    /\ IF Len(builder.Hostnames) = 0
       THEN /\ pc' = [pc EXCEPT ![c] = "panicked"]
            /\ UNCHANGED <<todo, visited, ps>>
       ELSE /\ pc' = [pc EXCEPT ![c] = "range"]
            /\ todo' = [todo EXCEPT ![c] = DOMAIN builder.ProtocolPorts]
            /\ visited' = [visited EXCEPT ![c] = <<>>]
            /\ ps' = [ps EXCEPT ![c] = <<>>]
    /\ UNCHANGED <<output, err>>

\* A caller invokes config.Build().
BuildCall(c) ==
    /\ pc[c] = "idle"
    /\ frame' = [frame EXCEPT ![c] = "Build"]
    /\ BuildEnter(c, config)
    /\ UNCHANGED <<config, broker, bindVars>>

\* One iteration of the range over the map, whose order Go leaves unspecified.
protocolsRange(c) ==
    /\ pc[c] = "range"
    /\ \E protocol \in todo[c] :
         /\ ps' = [ps EXCEPT ![c] =
                     protocolsCase(b[c], ps[c], protocol, b[c].ProtocolPorts[protocol])]
         /\ todo' = [todo EXCEPT ![c] = @ \ {protocol}]
         /\ visited' = [visited EXCEPT ![c] = Append(@, protocol)]
    /\ UNCHANGED <<config, broker, pc, frame, b, output, err, bindVars, calls>>

\* The loop is over: the management entry is added, protocols() returns, the
\* binding is marshalled and unmarshalled into output, and Build returns.
\* Marshal has no failing case for this struct (strings, string slices, an
\* int, bools and a string-keyed map) and Unmarshal none for Marshal's output.
BuildReturn(c) ==
    /\ pc[c] = "range"
    /\ todo[c] = {}
    /\ LET bind == bindingLiteral(b[c], protocolsMgmt(b[c], ps[c]))
           bytes == jsonMarshal(bind)
       IN  /\ output' = [output EXCEPT ![c] = jsonUnmarshal(bytes)]
           /\ err' = [err EXCEPT ![c] = Nil]
    /\ pc' = [pc EXCEPT ![c] = IF frame[c] = "Bind" THEN "built" ELSE "returned"]
    /\ UNCHANGED <<config, broker, frame, b, todo, visited, ps, bindVars, calls>>

----------------------------------------------------------------------------
(* Bind *)

\* The Services of namespace "rabbitmq-for-kubernetes", by name, each with its
\* Status.LoadBalancer.Ingress; a name not in the domain is not found.
Cluster ==
    "rabbitmq-for-kubernetes" :>
        [n \in {"p-i1-rabbitmq", "p-i2-rabbitmq", "p-i3-rabbitmq"} |->
            [Ingress |->
                CASE n = "p-i1-rabbitmq" -> <<>>
                  [] n = "p-i2-rabbitmq" -> <<[IP |-> <<"1", ".", "2">>]>>
                  [] n = "p-i3-rabbitmq" -> <<[IP |-> <<"1", ".", "2">>],
                                              [IP |-> <<"3", ".", "4">>]>>]]

InstanceIDs == {"i1", "i2", "i3", "i4"}

\* fmt.Errorf("<prefix>%s", err)
Errorf(prefix, e) == [error |-> prefix \o e.error]

\* Bind is entered: vhost := "%2f" and createKubernetesClient(), which
\* returns the error of clientsetConfig or of kubernetes.NewForConfig, or a
\* client.
BindCreateClient(c) ==
    /\ pc[c] = "idle"
    /\ frame' = [frame EXCEPT ![c] = "Bind"]
    /\ \E id \in InstanceIDs : instanceID' = [instanceID EXCEPT ![c] = id]
    /\ \E e \in {Nil, [error |-> "no config"]} :
         /\ calls' = [calls EXCEPT ![c].client = @ + 1,
                                   ![c].failed = IF e # Nil THEN "client" ELSE @]
         /\ IF e # Nil
            THEN /\ binding' = [binding EXCEPT ![c] = Nil]
                 /\ bindErr' = [bindErr EXCEPT ![c] =
                                  Errorf("Failed to create kubernetes client: ", e)]
                 /\ pc' = [pc EXCEPT ![c] = "bind_returned"]
            ELSE /\ pc' = [pc EXCEPT ![c] = "client"]
                 /\ UNCHANGED <<binding, bindErr>>
    /\ UNCHANGED <<config, broker, service, buildVars>>

\* Mutant: the lookup's error not returned, Bind going on with the empty
\* Service that Get hands back beside an error.
BindGetService_ignoreError(c) ==
    /\ pc[c] = "client"
    /\ LET name == "p-" \o instanceID[c] \o "-rabbitmq"
           services == Cluster["rabbitmq-for-kubernetes"]
       IN  \E e \in {Nil, [error |-> "connection refused"]} :
             LET failed == e # Nil \/ name \notin DOMAIN services
             IN  /\ calls' = [calls EXCEPT ![c].lookup = @ + 1,
                                           ![c].failed = IF failed THEN "lookup" ELSE @]
                 /\ service' = [service EXCEPT ![c] =
                                  IF failed THEN [Ingress |-> <<>>] ELSE services[name]]
                 /\ pc' = [pc EXCEPT ![c] = "service"]
                 /\ UNCHANGED <<binding, bindErr>>
    /\ UNCHANGED <<config, broker, frame, instanceID, buildVars>>

\* Services("rabbitmq-for-kubernetes").Get("p-<instanceID>-rabbitmq"): the
\* service, a not-found error, or the error of a failed request.
BindGetService(c) ==
    /\ pc[c] = "client"
    /\ LET name == "p-" \o instanceID[c] \o "-rabbitmq"
           services == Cluster["rabbitmq-for-kubernetes"]
       IN  \E e \in {Nil, [error |-> "connection refused"]} :
             LET got == IF e # Nil THEN e
                        ELSE IF name \in DOMAIN services THEN Nil
                        ELSE [error |-> "services \"" \o name \o "\" not found"]
             IN  /\ calls' = [calls EXCEPT ![c].lookup = @ + 1,
                                           ![c].failed = IF got # Nil THEN "lookup" ELSE @]
                 /\ IF got # Nil
                    THEN /\ binding' = [binding EXCEPT ![c] = Nil]
                         /\ bindErr' = [bindErr EXCEPT ![c] =
                                          Errorf("Failed to retrieve service: ", got)]
                         /\ pc' = [pc EXCEPT ![c] = "bind_returned"]
                         /\ UNCHANGED service
                    ELSE /\ service' = [service EXCEPT ![c] = services[name]]
                         /\ pc' = [pc EXCEPT ![c] = "service"]
                         /\ UNCHANGED <<binding, bindErr>>
    /\ UNCHANGED <<config, broker, frame, instanceID, buildVars>>

\* serviceIP is the first ingress IP, or stays "" without one.
serviceIP(svc) == IF Len(svc.Ingress) > 0 THEN svc.Ingress[1].IP ELSE <<>>

\* Mutant: no hostname at all for a service without an address.
credsBuilder_dropEmptyIP(brk, ip) ==
    [MgmtDomain    |-> ip \o <<":">> \o FormatInt(15672),
     Hostnames     |-> IF ip = <<>> THEN <<>> ELSE <<ip>>,
     VHost         |-> <<"%", "2", "f">>,
     Username      |-> brk.Username,
     Password      |-> brk.Password,
     TLS           |-> brk.TLS,
     ProtocolPorts |-> [amqp |-> 5672, clustering |-> 25672, http |-> 15672]]

\* The Builder literal of Bind.
credsBuilder(brk, ip) ==
    [MgmtDomain    |-> ip \o <<":">> \o FormatInt(15672),
     Hostnames     |-> <<ip>>,
     VHost         |-> <<"%", "2", "f">>,
     Username      |-> brk.Username,
     Password      |-> brk.Password,
     TLS           |-> brk.TLS,
     ProtocolPorts |-> [amqp |-> 5672, clustering |-> 25672, http |-> 15672]]

\* Bind calls credsBuilder.Build().
BindCallBuild(c) ==
    /\ pc[c] = "service"
    /\ BuildEnter(c, credsBuilder(broker, serviceIP(service[c])))
    /\ UNCHANGED <<config, broker, frame, bindVars>>

\* Build has returned to Bind, which returns its error or the credentials.
BindReturn(c) ==
    /\ pc[c] = "built"
    /\ IF err[c] # Nil
       THEN /\ binding' = [binding EXCEPT ![c] = Nil]
            /\ bindErr' = [bindErr EXCEPT ![c] = err[c]]
       ELSE /\ binding' = [binding EXCEPT ![c] = output[c]]
            /\ bindErr' = [bindErr EXCEPT ![c] = Nil]
    /\ pc' = [pc EXCEPT ![c] = "bind_returned"]
    /\ UNCHANGED <<config, broker, frame, instanceID, service, buildVars, calls>>

Next == \E c \in Callers : BuildCall(c) \/ protocolsRange(c) \/ BuildReturn(c)

Spec == Init /\ [][Next]_vars

NextBind ==
    \E c \in Callers :
        \/ BindCreateClient(c)
        \/ BindGetService(c)
        \/ BindCallBuild(c)
        \/ protocolsRange(c)
        \/ BuildReturn(c)
        \/ BindReturn(c)

BindSpec == InitBind /\ [][NextBind]_vars

----------------------------------------------------------------------------
(* Properties of Build, under Spec *)

\* Build has returned to the caller that invoked it directly.
Returned(c) == frame[c] = "Build" /\ pc[c] = "returned"

\* A string with each invalid UTF-8 byte replaced by U+FFFD.
ToValidUTF8(s) ==
    [i \in 1..Len(s) |-> IF s[i] = InvalidByte THEN ReplacementRune ELSE s[i]]

ToValidUTF8s(ss) == [i \in 1..Len(ss) |-> ToValidUTF8(ss[i])]

ConfigurationError == [error |-> "ConfigurationError"]

\* C1: Build on an empty hostnames sequence fails with a ConfigurationError
\* returned as an error value, returns no record, and never crashes.
C1_EmptyHostnamesFailFast ==
    \A c \in Callers :
        (frame[c] = "Build" /\ pc[c] # "idle" /\ Len(b[c].Hostnames) = 0)
            => /\ pc[c] = "returned"
               /\ err[c] = ConfigurationError
               /\ output[c] = Nil

\* The URIs the descriptor named k holds for the hostnames of builder.
DescriptorURIs(builder, k) ==
    [i \in 1..Len(builder.Hostnames) |->
        IF k = "amqp"
        THEN uriForAMQP(builder, builder.Hostnames[i], builder.ProtocolPorts["amqp"])
        ELSE uriForManagement(builder, builder.Hostnames[i], 15672)]

C3_ManagementDescriptor ==
    \A c \in Callers : Returned(c) =>
        /\ "management" \in DOMAIN output[c].protocols
        /\ LET m == output[c].protocols["management"]
           IN  /\ m.ssl = FALSE
               /\ "path" \in DOMAIN m
               /\ m.path = <<"/", "a", "p", "i", "/">>
               /\ "vhost" \notin DOMAIN m

\* Build has returned for a config with tls set and an empty protocolPorts.
C3_Witness ==
    \E c \in Callers :
        /\ Returned(c)
        /\ b[c].TLS
        /\ DOMAIN b[c].ProtocolPorts = {}
        /\ b[c].VHost # <<>>

\* C4: Build with a non-empty hostnames sequence ends with no error whatever
\* the names in protocolPorts, and the keys of the record's protocols are
\* "management", and "amqp" exactly when protocolPorts has it.
C4_ProtocolKeys ==
    \A c \in Callers :
        /\ (frame[c] = "Build" /\ pc[c] = "panicked") => Len(b[c].Hostnames) = 0
        /\ Returned(c) =>
             /\ err[c] = Nil
             /\ DOMAIN output[c].protocols =
                    {"management"} \cup ({"amqp"} \cap DOMAIN b[c].ProtocolPorts)

\* Build has returned for a protocolPorts of unrecognized names only.
C4_Witness ==
    \E c \in Callers :
        /\ Returned(c)
        /\ DOMAIN b[c].ProtocolPorts = {"clustering", "management"}

\* C5: the record's ssl is the config's tls flag, and the amqp descriptor's
\* ssl is false for both values of the flag.
C5_TLSFields ==
    \A c \in Callers : Returned(c) =>
        /\ output[c].ssl = b[c].TLS
        /\ "amqp" \in DOMAIN b[c].ProtocolPorts =>
             /\ "amqp" \in DOMAIN output[c].protocols
             /\ output[c].protocols["amqp"].ssl = FALSE

\* Build has returned an amqp descriptor for a config with tls set.
C5_Witness ==
    \E c \in Callers :
        /\ Returned(c)
        /\ b[c].TLS
        /\ "amqp" \in DOMAIN output[c].protocols

\* C6: the management descriptor's port, and the port in its uri and uris,
\* is protocolPorts' management port when there is one, and 15672 otherwise.
C6_ManagementPortFromConfig ==
    \A c \in Callers : Returned(c) =>
        LET m == output[c].protocols["management"]
            port == IF "management" \in DOMAIN b[c].ProtocolPorts
                    THEN b[c].ProtocolPorts["management"] ELSE 15672
        IN  /\ m.port = port
            /\ m.uri = ToValidUTF8(uriForManagement(b[c], b[c].Hostnames[1], port))
            /\ m.uris = ToValidUTF8s(urisForManagement(b[c], port))

\* fmt.Sprintf("%s://%s:%s@%s/%s", "amqp", u, p, h, v), written out.
AMQPURI(u, p, h, v) ==
    <<"a", "m", "q", "p", ":", "/", "/">> \o u \o <<":">> \o p \o <<"@">> \o h
        \o <<"/">> \o v

\* The same with the port after the host.
AMQPURIWithPort(u, p, h, port, v) ==
    <<"a", "m", "q", "p", ":", "/", "/">> \o u \o <<":">> \o p \o <<"@">> \o h
        \o <<":">> \o FormatInt(port) \o <<"/">> \o v

C10_DeterministicAndPure ==
    /\ [](\A c1, c2 \in Callers :
            (Returned(c1) /\ Returned(c2)) =>
                (output[c1] = output[c2] /\ err[c1] = err[c2]))
    /\ [][/\ config' = config
          /\ \A c \in Callers : pc[c] # "idle" => (b'[c] = b[c] /\ b[c] = config)]_vars

\* Both callers have returned from Build on a config with three protocol
\* names, having ranged over them in different orders.
C10_Witness ==
    /\ \A c \in Callers : Returned(c)
    /\ Cardinality(DOMAIN config.ProtocolPorts) = 3
    /\ visited["c1"] # visited["c2"]
    /\ visited["c1"][1] = "amqp"
    /\ visited["c2"][3] = "amqp"

----------------------------------------------------------------------------
(* Properties of Bind, under BindSpec *)

\* The lookup of caller c found a service with no ingress address.
NoIngress(c) ==
    frame[c] = "Bind" /\ service[c] # Nil /\ Len(service[c].Ingress) = 0

\* C8: when the service has no ingress address, Bind gives Build the empty
\* string as the single hostname and as the host of the management
\* endpoint, Build does not fail, and Bind returns credentials and no error.
C8_EmptyAddressFlowsThrough ==
    \A c \in Callers : NoIngress(c) =>
        /\ pc[c] # "panicked"
        /\ pc[c] \in {"range", "built", "bind_returned"} =>
             /\ b[c].Hostnames = << <<>> >>
             /\ b[c].MgmtDomain = <<":", "1", "5", "6", "7", "2">>
        /\ pc[c] \in {"built", "bind_returned"} =>
             /\ err[c] = Nil
             /\ output[c] # Nil
             /\ output[c].hostname = <<>>
             /\ output[c].hostnames = << <<>> >>
             /\ output[c].protocols["management"].host = <<>>
        /\ pc[c] = "bind_returned" =>
             /\ bindErr[c] = Nil
             /\ binding[c] = output[c]

\* Bind has returned for a service with no ingress address.
C8_Witness ==
    \E c \in Callers : NoIngress(c) /\ pc[c] = "bind_returned"

\* The errors Bind returns when a step before Build fails.
ClientErrors == {[error |-> "Failed to create kubernetes client: no config"]}
LookupErrors ==
    {[error |-> "Failed to retrieve service: connection refused"]}
        \cup {[error |-> "Failed to retrieve service: services \"p-" \o id
                            \o "-rabbitmq\" not found"] : id \in InstanceIDs}

\* C9: Bind creates the client, looks the service up and calls Build in that
\* order, each at most once; when client creation or the lookup fails it
\* returns no credentials and the wrapped error without calling Build; it
\* returns credentials only when all three succeeded.
C9_BindSteps ==
    \A c \in Callers :
        /\ calls[c].client <= 1
        /\ calls[c].lookup <= calls[c].client
        /\ calls[c].build <= calls[c].lookup
        /\ calls[c].failed = "client" =>
             /\ calls[c].lookup = 0
             /\ pc[c] = "bind_returned"
             /\ bindErr[c] \in ClientErrors
        /\ calls[c].failed = "lookup" =>
             /\ pc[c] = "bind_returned"
             /\ bindErr[c] \in LookupErrors
        /\ calls[c].failed # "none" =>
             /\ calls[c].build = 0
             /\ binding[c] = Nil
        /\ (pc[c] = "bind_returned" /\ binding[c] # Nil) =>
             /\ calls[c] = [client |-> 1, lookup |-> 1, build |-> 1, failed |-> "none"]
             /\ err[c] = Nil
             /\ bindErr[c] = Nil
             /\ binding[c] = output[c]

\* One Bind has returned credentials, another the error of a failed lookup.
C9_Witness ==
    \E c1, c2 \in Callers :
        /\ pc[c1] = "bind_returned" /\ binding[c1] # Nil
        /\ pc[c2] = "bind_returned" /\ calls[c2].failed = "lookup"

====
